---- MODULE Spec2Model ----
(***************************************************************************)
(* Model of Ui::EditInviteLinkBox                                          *)
(* (Telegram/SourceFiles/ui/boxes/edit_invite_link.cpp).                   *)
(*                                                                         *)
(* The dialog keeps two limit selections (expiration, usage), a request-   *)
(* approval toggle, two radio groups and the two lists of radio buttons    *)
(* that regenerate() rebuilds.  Selecting the trailing 0 entry of a list   *)
(* opens a secondary box (date picker / number input).  The save button    *)
(* encodes the selections and calls done(); the cancel button closes.      *)
(***************************************************************************)
EXTENDS Integers, Sequences, FiniteSets, TLC

\* ------------------------------------------------------------------------
\* Program constants (edit_invite_link.cpp:24-26).
kMaxLimit == 2147483647
kHour == 3600
kDay == 86400

\* ------------------------------------------------------------------------
\* Bounds of the model.
NowAtOpen == 1000000   \* base::unixtime::now() when the dialog is built
TickStep == 1800       \* seconds by which one clock step advances the time
MaxTicks == 1          \* clock steps explored
MaxCommits == 2        \* activations of the save button explored
MaxCount == 12         \* SynthSpec draws every usage count 1..MaxCount

VARIABLES
    data,            \* the InviteLinkFields the box was opened with
    now,             \* `now` captured at line 91
    clock,           \* what base::unixtime::now() currently returns
    expireValue,     \* state->expireValue
    usageValue,      \* state->usageValue
    requestApproval, \* state->requestApproval
    expireGroup,     \* expireGroup->value()
    usageGroup,      \* usageGroup->value()
    expires,         \* the vector `expires` built by the last regenerate()
    usages,          \* the vector `usages` built by the last regenerate()
    expireButtons,   \* limits of the radio buttons shown, in layout order
    usageButtons,    \* limits of the radio buttons shown, in layout order
    usagesShown,     \* usagesSlide toggled on
    boxAlive,        \* the dialog box still exists (guard is non-null)
    picker,          \* "none", "expire" (ChooseDateTimeBox), "usage"
    pickerTime,      \* .time handed to ChooseDateTimeBox (0: no date picker)
    inputText,       \* text of the NumberInput of the usage picker
    inputError,      \* input->showError() was called on the open picker
    doneCount,       \* how many times done() has been called
    doneArg,         \* <<record>> the handler that ran last gave done(), or <<>>
    event            \* the handler that ran last

vars == <<data, now, clock, expireValue, usageValue, requestApproval,
          expireGroup, usageGroup, expires, usages, expireButtons,
          usageButtons, usagesShown, boxAlive, picker, pickerTime,
          inputText, inputError, doneCount, doneArg, event>>

\* ------------------------------------------------------------------------
\* Sequences.

\* std::vector::insert(i, v): v placed before position i.
InsertAt(vec, i, v) ==
    SubSeq(vec, 1, i - 1) \o <<v>> \o SubSeq(vec, i, Len(vec))

Range(s) == { s[i] : i \in 1..Len(s) }

\* ------------------------------------------------------------------------
\* regenerate(): the two preset vectors and the two insertion loops.

ExpirePresets == <<kMaxLimit, -kHour, -kDay, -kDay * 7, 0>>
UsagePresets == <<kMaxLimit, 1, 10, 100, 0>>

RECURSIVE ExpiresLoop(_, _, _, _)
ExpiresLoop(vec, i, value, t) ==
    IF i > Len(vec) THEN vec
    ELSE IF vec[i] = value THEN vec
    ELSE IF vec[i] = kMaxLimit THEN ExpiresLoop(vec, i + 1, value, t)
    ELSE IF vec[i] = 0 \/ t - vec[i] >= value THEN InsertAt(vec, i, value)
    ELSE ExpiresLoop(vec, i + 1, value, t)

\* UsagesLoop without the `!*i` test for the trailing 0.
RECURSIVE UsagesLoopNoTrigger(_, _, _)
UsagesLoopNoTrigger(vec, i, value) ==
    IF i > Len(vec) THEN vec
    ELSE IF vec[i] = value THEN vec
    ELSE IF vec[i] = kMaxLimit THEN UsagesLoopNoTrigger(vec, i + 1, value)
    ELSE IF vec[i] > value THEN InsertAt(vec, i, value)
    ELSE UsagesLoopNoTrigger(vec, i + 1, value)

\* UsagesLoop without the `continue` on kMaxLimit (lines 184-185).
RECURSIVE UsagesLoopNoSkip(_, _, _)
UsagesLoopNoSkip(vec, i, value) ==
    IF i > Len(vec) THEN vec
    ELSE IF vec[i] = value THEN vec
    ELSE IF vec[i] = 0 \/ vec[i] > value THEN InsertAt(vec, i, value)
    ELSE UsagesLoopNoSkip(vec, i + 1, value)

RECURSIVE UsagesLoop(_, _, _)
UsagesLoop(vec, i, value) ==
    IF i > Len(vec) THEN vec
    ELSE IF vec[i] = value THEN vec
    ELSE IF vec[i] = kMaxLimit THEN UsagesLoop(vec, i + 1, value)
    ELSE IF vec[i] = 0 \/ vec[i] > value THEN InsertAt(vec, i, value)
    ELSE UsagesLoop(vec, i + 1, value)

\* Buttons is a flat_map keyed by the limit: emplace of a key already present
\* keeps the first button and destroys the one just added to the layout.
RECURSIVE Emplaced(_)
Emplaced(vec) ==
    IF vec = <<>> THEN <<>>
    ELSE LET front == Emplaced(SubSeq(vec, 1, Len(vec) - 1))
             last == vec[Len(vec)]
         IN IF last \in Range(front) THEN front ELSE Append(front, last)

\* Regenerate measuring the relative presets from the time of the call.
RegenerateAtClock(ev, uv) ==
    /\ expireGroup' = ev
    /\ usageGroup' = uv
    /\ expires' = ExpiresLoop(ExpirePresets, 1, ev, clock)
    /\ usages' = UsagesLoop(UsagePresets, 1, uv)
    /\ expireButtons' = Emplaced(expires')
    /\ usageButtons' = Emplaced(usages')

\* regenerate() run on the (new) values of the state.
Regenerate(ev, uv) ==
    /\ expireGroup' = ev
    /\ usageGroup' = uv
    /\ expires' = ExpiresLoop(ExpirePresets, 1, ev, now)
    /\ usages' = UsagesLoop(UsagePresets, 1, uv)
    /\ expireButtons' = Emplaced(expires')
    /\ usageButtons' = Emplaced(usages')

\* ------------------------------------------------------------------------
\* Text of the NumberInput: a sequence of characters.

Digit == <<"0", "1", "2", "3", "4", "5", "6", "7", "8", "9">>

IsDigit(c) == \E d \in 1..10 : Digit[d] = c

DigitValue(c) == (CHOOSE d \in 1..10 : Digit[d] = c) - 1

RECURSIVE DigitsValue(_)
DigitsValue(text) ==
    IF Len(text) = 1 THEN DigitValue(text[1])
    ELSE DigitsValue(SubSeq(text, 1, Len(text) - 1)) * 10
         + DigitValue(text[Len(text)])

\* QString::toInt(): an optional sign and decimal digits; 0 for anything else.
toInt(text) ==
    LET neg == text # <<>> /\ text[1] = "-"
        body == IF neg THEN Tail(text) ELSE text
    IN IF body = <<>> \/ \E i \in 1..Len(body) : ~IsDigit(body[i]) THEN 0
       ELSE IF neg THEN -DigitsValue(body) ELSE DigitsValue(body)

\* QString::number(n).
RECURSIVE number(_)
number(n) ==
    IF n < 0 THEN <<"-">> \o number(-n)
    ELSE IF n < 10 THEN <<Digit[n + 1]>>
    ELSE number(n \div 10) \o <<Digit[(n % 10) + 1]>>

\* ------------------------------------------------------------------------
\* Inputs explored.

\* CreateInviteLinkBox (lines 342-350): every field but isGroup defaulted.
CreateInputs ==
    [ link : {""},
      expireDate : {0},
      usageLimit : {0},
      requestApproval : {FALSE},
      isGroup : BOOLEAN ]

\* Records of existing links the dialog is opened with for editing.
EditInputs ==
    [ link : {"t.me/+abc"},
      expireDate : {0, NowAtOpen - 100},
      usageLimit : {0, 5},
      requestApproval : BOOLEAN,
      isGroup : {TRUE} ]

Inputs == CreateInputs \cup EditInputs

\* Times ChooseDateTimeBox hands to its done callback (0: an unset result).
DateResults == {0, NowAtOpen + 2 * kHour}

\* Texts the NumberInput holds when it is submitted.
Texts == { <<>>, <<"0">>, <<"-", "5">>, <<"x">>, <<"5", "0">>, <<"1", "0">> }

\* ------------------------------------------------------------------------
\* Construction (lines 91-118, 298, 314).

\* Built without the 0 -> kMaxLimit decoding of lines 92 and 94.
BuiltNoDecode(d) ==
    /\ data = d
    /\ now = NowAtOpen
    /\ clock = NowAtOpen
    /\ expireValue = d.expireDate
    /\ usageValue = d.usageLimit
    /\ requestApproval = d.requestApproval
    /\ expireGroup = expireValue
    /\ usageGroup = usageValue
    /\ usagesShown = ~d.requestApproval
    /\ boxAlive = TRUE
    /\ picker = "none"
    /\ pickerTime = 0
    /\ inputText = <<>>
    /\ inputError = FALSE
    /\ doneCount = 0
    /\ doneArg = <<>>

\* The state built at lines 91-118, before regenerate() has run.
Built(d) ==
    /\ data = d
    /\ now = NowAtOpen
    /\ clock = NowAtOpen
    /\ expireValue = (IF d.expireDate # 0 THEN d.expireDate ELSE kMaxLimit)
    /\ usageValue = (IF d.usageLimit # 0 THEN d.usageLimit ELSE kMaxLimit)
    /\ requestApproval = d.requestApproval
    /\ expireGroup = expireValue
    /\ usageGroup = usageValue
    /\ usagesShown = ~d.requestApproval
    /\ boxAlive = TRUE
    /\ picker = "none"
    /\ pickerTime = 0
    /\ inputText = <<>>
    /\ inputError = FALSE
    /\ doneCount = 0
    /\ doneArg = <<>>

Init ==
    \E d \in Inputs :
        /\ Built(d)
        /\ expires = ExpiresLoop(ExpirePresets, 1, expireValue, now)
        /\ usages = UsagesLoop(UsagePresets, 1, usageValue)
        /\ expireButtons = Emplaced(expires)
        /\ usageButtons = Emplaced(usages)
        /\ event = "Open"

\* ------------------------------------------------------------------------
\* The expiration radio group.

\* PickerTime keeping every non-negative value, also one not later than now.
PickerTimeKeepsPast(ev, t) ==
    IF ev = kMaxLimit THEN t + kDay
    ELSE IF ev >= 0 THEN ev
    ELSE t - ev

\* .time of the date picker (lines 233-240), read from a fresh now().
PickerTime(ev, t) ==
    IF ev = kMaxLimit THEN t + kDay
    ELSE IF ev > t THEN ev
    ELSE IF ev < 0 THEN t - ev
    ELSE t + kDay

\* ExpireGroupChanged without the setValue of line 221.
ExpireGroupChangedNoReset(value) ==
    IF value # 0
    THEN /\ expireValue' = value
         /\ expireGroup' = value
         /\ UNCHANGED <<picker, pickerTime>>
    ELSE /\ expireGroup' = 0
         /\ expireValue' = expireValue
         /\ picker' = "expire"
         /\ pickerTime' = PickerTime(expireValue, clock)

\* expireGroup's changed callback (lines 216-248), the group holding `value`.
ExpireGroupChanged(value) ==
    IF value # 0
    THEN /\ expireValue' = value
         /\ expireGroup' = value
         /\ UNCHANGED <<picker, pickerTime>>
    ELSE /\ expireGroup' = expireValue   \* setValue runs the callback again,
         /\ expireValue' = expireValue   \* which stores the same value
         /\ picker' = "expire"
         /\ pickerTime' = PickerTime(expireValue, clock)

\* The user clicks one of the expiration radio buttons.
SelectExpire ==
    /\ boxAlive /\ picker = "none"
    /\ \E v \in Range(expireButtons) :
        /\ v # expireGroup
        /\ ExpireGroupChanged(v)
        /\ event' = (IF v # 0 THEN "SelectExpire" ELSE "CustomExpire")
    /\ doneArg' = <<>>
    /\ UNCHANGED <<data, now, clock, usageValue, requestApproval, usageGroup,
                   expires, usages, expireButtons, usageButtons, usagesShown,
                   boxAlive, inputText, inputError, doneCount>>

\* ExpireSave without the `if (guard)` test of line 227.
ExpireSaveNoGuard(result) ==
    IF result = 0
    THEN UNCHANGED <<expireValue, expireGroup, usageGroup, expires, usages,
                     expireButtons, usageButtons, picker, pickerTime>>
    ELSE /\ expireValue' = result
         /\ Regenerate(result, usageValue)
         /\ picker' = "none"
         /\ pickerTime' = 0

\* ExpireSave closing the picker on an unset result.
ExpireSaveNullCloses(result) ==
    /\ IF result # 0 /\ boxAlive
       THEN /\ expireValue' = result
            /\ Regenerate(result, usageValue)
       ELSE UNCHANGED <<expireValue, expireGroup, usageGroup, expires,
                        usages, expireButtons, usageButtons>>
    /\ picker' = "none"
    /\ pickerTime' = 0

\* `save` of the date picker (lines 223-232).
ExpireSave(result) ==
    IF result = 0
    THEN UNCHANGED <<expireValue, expireGroup, usageGroup, expires, usages,
                     expireButtons, usageButtons, picker, pickerTime>>
    ELSE /\ IF boxAlive
            THEN /\ expireValue' = result
                 /\ Regenerate(result, usageValue)
            ELSE UNCHANGED <<expireValue, expireGroup, usageGroup, expires,
                             usages, expireButtons, usageButtons>>
         /\ picker' = "none"
         /\ pickerTime' = 0

ExpirePickerSave ==
    /\ picker = "expire"
    /\ \E result \in DateResults : ExpireSave(result)
    /\ doneArg' = <<>>
    /\ event' = "ExpirePickerSave"
    /\ UNCHANGED <<data, now, clock, usageValue, requestApproval, usagesShown,
                   boxAlive, inputText, inputError, doneCount>>

\* The date picker is dismissed without calling back.
ExpirePickerCancel ==
    /\ picker = "expire"
    /\ picker' = "none"
    /\ pickerTime' = 0
    /\ doneArg' = <<>>
    /\ event' = "ExpirePickerCancel"
    /\ UNCHANGED <<data, now, clock, expireValue, usageValue, requestApproval,
                   expireGroup, usageGroup, expires, usages, expireButtons,
                   usageButtons, usagesShown, boxAlive, inputText, inputError, doneCount>>

\* ------------------------------------------------------------------------
\* The usage radio group.

\* UsageGroupChanged not storing a selected value (line 251 left out).
UsageGroupChangedNoStore(value) ==
    IF value # 0
    THEN /\ usageValue' = usageValue
         /\ usageGroup' = value
         /\ UNCHANGED <<picker, inputText, inputError>>
    ELSE /\ usageGroup' = usageValue
         /\ usageValue' = usageValue
         /\ picker' = "usage"
         /\ inputText' = (IF usageValue = kMaxLimit THEN <<>>
                          ELSE number(usageValue))
         /\ inputError' = FALSE

\* usageGroup's changed callback (lines 249-296), the group holding `value`.
UsageGroupChanged(value) ==
    IF value # 0
    THEN /\ usageValue' = value
         /\ usageGroup' = value
         /\ UNCHANGED <<picker, inputText, inputError>>
    ELSE /\ usageGroup' = usageValue
         /\ usageValue' = usageValue
         /\ picker' = "usage"
         /\ inputText' = (IF usageValue = kMaxLimit THEN <<>>
                          ELSE number(usageValue))
         /\ inputError' = FALSE

\* The user clicks one of the usage radio buttons (shown only while the
\* usages slide is toggled on).
SelectUsage ==
    /\ boxAlive /\ picker = "none" /\ usagesShown
    /\ \E v \in Range(usageButtons) :
        /\ v # usageGroup
        /\ UsageGroupChanged(v)
        /\ event' = (IF v # 0 THEN "SelectUsage" ELSE "CustomUsage")
    /\ doneArg' = <<>>
    /\ UNCHANGED <<data, now, clock, expireValue, requestApproval, expireGroup,
                   expires, usages, expireButtons, usageButtons, usagesShown,
                   boxAlive, pickerTime, doneCount>>

\* UsageSave rejecting negative values only.
UsageSaveNegativeOnly(text) ==
    LET value == toInt(text)
    IN IF value < 0
       THEN /\ inputError' = TRUE
            /\ inputText' = text
            /\ UNCHANGED <<usageValue, expireGroup, usageGroup, expires,
                           usages, expireButtons, usageButtons, picker>>
       ELSE /\ IF boxAlive
               THEN /\ usageValue' = value
                    /\ Regenerate(expireValue, value)
               ELSE UNCHANGED <<usageValue, expireGroup, usageGroup, expires,
                                usages, expireButtons, usageButtons>>
            /\ picker' = "none"
            /\ inputText' = <<>>
            /\ inputError' = FALSE

\* `save` of the number input box (lines 280-291), the input holding `text`.
UsageSave(text) ==
    LET value == toInt(text)
    IN IF value <= 0
       THEN /\ inputError' = TRUE
            /\ inputText' = text
            /\ UNCHANGED <<usageValue, expireGroup, usageGroup, expires,
                           usages, expireButtons, usageButtons, picker>>
       ELSE /\ IF boxAlive
               THEN /\ usageValue' = value
                    /\ Regenerate(expireValue, value)
               ELSE UNCHANGED <<usageValue, expireGroup, usageGroup, expires,
                                usages, expireButtons, usageButtons>>
            /\ picker' = "none"
            /\ inputText' = <<>>
            /\ inputError' = FALSE

UsagePickerSave ==
    /\ picker = "usage"
    /\ \E text \in Texts : UsageSave(text)
    /\ doneArg' = <<>>
    /\ event' = "UsagePickerSave"
    /\ UNCHANGED <<data, now, clock, expireValue, requestApproval, usagesShown,
                   boxAlive, pickerTime, doneCount>>

\* The cancel button of the number input box (line 294).
UsagePickerCancel ==
    /\ picker = "usage"
    /\ picker' = "none"
    /\ inputText' = <<>>
    /\ inputError' = FALSE
    /\ doneArg' = <<>>
    /\ event' = "UsagePickerCancel"
    /\ UNCHANGED <<data, now, clock, expireValue, usageValue, requestApproval,
                   expireGroup, usageGroup, expires, usages, expireButtons,
                   usageButtons, usagesShown, boxAlive, pickerTime, doneCount>>

\* ------------------------------------------------------------------------
\* ToggleApproval dropping the usage selection when approval is turned on.
ToggleApprovalResetsUsage ==
    /\ boxAlive /\ picker = "none"
    /\ requestApproval' = ~requestApproval
    /\ usagesShown' = ~requestApproval'
    /\ usageValue' = (IF requestApproval' THEN kMaxLimit ELSE usageValue)
    /\ usageGroup' = usageValue'
    /\ doneArg' = <<>>
    /\ event' = "ToggleApproval"
    /\ UNCHANGED <<data, now, clock, expireValue, expireGroup, expires,
                   usages, expireButtons, usageButtons, boxAlive, picker,
                   pickerTime, inputText, inputError, doneCount>>

\* The request-approval toggle (lines 111-118) and the usages slide (314).
ToggleApproval ==
    /\ boxAlive /\ picker = "none"
    /\ requestApproval' = ~requestApproval
    /\ usagesShown' = ~requestApproval'
    /\ doneArg' = <<>>
    /\ event' = "ToggleApproval"
    /\ UNCHANGED <<data, now, clock, expireValue, usageValue, expireGroup,
                   usageGroup, expires, usages, expireButtons, usageButtons,
                   boxAlive, picker, pickerTime, inputText, inputError, doneCount>>

\* ------------------------------------------------------------------------
\* The buttons of the dialog.

\* Fields with the usage limit dropped while approval is requested.
FieldsApprovalClearsUsage(t) ==
    [ link |-> data.link,
      expireDate |-> (IF expireValue = kMaxLimit THEN 0
                      ELSE IF expireValue < 0 THEN t - expireValue
                      ELSE expireValue),
      usageLimit |-> (IF usageValue = kMaxLimit \/ requestApproval THEN 0
                      ELSE usageValue),
      requestApproval |-> requestApproval,
      isGroup |-> data.isGroup ]

\* Fields handing kMaxLimit on as it is (the `? 0` of lines 322-323 and
\* 327-328 left out).
FieldsNoEncode(t) ==
    [ link |-> data.link,
      expireDate |-> (IF expireValue < 0 THEN t - expireValue
                      ELSE expireValue),
      usageLimit |-> usageValue,
      requestApproval |-> requestApproval,
      isGroup |-> data.isGroup ]

\* The record the save button hands to done() (lines 321-337); t is what
\* base::unixtime::now() returns inside the handler.
Fields(t) ==
    [ link |-> data.link,
      expireDate |-> (IF expireValue = kMaxLimit THEN 0
                      ELSE IF expireValue < 0 THEN t - expireValue
                      ELSE expireValue),
      usageLimit |-> (IF usageValue = kMaxLimit THEN 0 ELSE usageValue),
      requestApproval |-> requestApproval,
      isGroup |-> data.isGroup ]

\* SaveButton resolving a relative expiration from the `now` of line 91.
SaveButtonOpenTime ==
    /\ boxAlive /\ picker = "none"
    /\ doneCount < MaxCommits
    /\ doneCount' = doneCount + 1
    /\ doneArg' = <<Fields(now)>>
    /\ event' = "Save"
    /\ UNCHANGED <<data, now, clock, expireValue, usageValue, requestApproval,
                   expireGroup, usageGroup, expires, usages, expireButtons,
                   usageButtons, usagesShown, boxAlive, picker, pickerTime,
                   inputText, inputError>>

\* SaveButton closing the box after done().
SaveButtonCloses ==
    /\ boxAlive /\ picker = "none"
    /\ doneCount < MaxCommits
    /\ doneCount' = doneCount + 1
    /\ doneArg' = <<Fields(clock)>>
    /\ boxAlive' = FALSE
    /\ event' = "Save"
    /\ UNCHANGED <<data, now, clock, expireValue, usageValue, requestApproval,
                   expireGroup, usageGroup, expires, usages, expireButtons,
                   usageButtons, usagesShown, picker, pickerTime, inputText,
                   inputError>>

\* The save button (lines 320-338).
SaveButton ==
    /\ boxAlive /\ picker = "none"
    /\ doneCount < MaxCommits
    /\ doneCount' = doneCount + 1
    /\ doneArg' = <<Fields(clock)>>
    /\ event' = "Save"
    /\ UNCHANGED <<data, now, clock, expireValue, usageValue, requestApproval,
                   expireGroup, usageGroup, expires, usages, expireButtons,
                   usageButtons, usagesShown, boxAlive, picker, pickerTime,
                   inputText, inputError>>

\* CancelButton handing the record to done() before closing.
CancelButtonCallsDone ==
    /\ boxAlive /\ picker = "none"
    /\ doneCount < MaxCommits
    /\ doneCount' = doneCount + 1
    /\ doneArg' = <<Fields(clock)>>
    /\ boxAlive' = FALSE
    /\ event' = "Cancel"
    /\ UNCHANGED <<data, now, clock, expireValue, usageValue, requestApproval,
                   expireGroup, usageGroup, expires, usages, expireButtons,
                   usageButtons, usagesShown, picker, pickerTime, inputText,
                   inputError>>

\* The cancel button (line 339).
CancelButton ==
    /\ boxAlive /\ picker = "none"
    /\ boxAlive' = FALSE
    /\ doneArg' = <<>>
    /\ event' = "Cancel"
    /\ UNCHANGED <<data, now, clock, expireValue, usageValue, requestApproval,
                   expireGroup, usageGroup, expires, usages, expireButtons,
                   usageButtons, usagesShown, picker, pickerTime, inputText,
                   inputError, doneCount>>

\* The host destroys the dialog box, a picker possibly still open above it.
HostClose ==
    /\ boxAlive
    /\ boxAlive' = FALSE
    /\ doneArg' = <<>>
    /\ event' = "HostClose"
    /\ UNCHANGED <<data, now, clock, expireValue, usageValue, requestApproval,
                   expireGroup, usageGroup, expires, usages, expireButtons,
                   usageButtons, usagesShown, picker, pickerTime, inputText,
                   inputError, doneCount>>

\* Time passes while the dialog or a picker is on screen.
Tick ==
    /\ boxAlive \/ picker # "none"
    /\ clock < now + MaxTicks * TickStep
    /\ clock' = clock + TickStep
    /\ UNCHANGED <<data, now, expireValue, usageValue, requestApproval,
                   expireGroup, usageGroup, expires, usages, expireButtons,
                   usageButtons, usagesShown, boxAlive, picker, pickerTime,
                   inputText, inputError, doneCount, doneArg, event>>

Next ==
    \/ SelectExpire
    \/ ExpirePickerSave
    \/ ExpirePickerCancel
    \/ SelectUsage
    \/ UsagePickerSave
    \/ UsagePickerCancel
    \/ ToggleApproval
    \/ SaveButton
    \/ CancelButton
    \/ HostClose
    \/ Tick

Spec == Init /\ [][Next]_vars

\* ------------------------------------------------------------------------
\* The ladders alone: the box is built on a record drawn from a wider set of
\* values, and the only step is the regenerate() call of line 298.

SynthInputs ==
    [ link : {"t.me/+abc"},
      expireDate : {0, -kHour, -kDay, -kDay * 7, -2 * kHour, -1,
                    NowAtOpen - 100, NowAtOpen + kHour, NowAtOpen + kHour + 1,
                    NowAtOpen + 2 * kHour, NowAtOpen + kDay,
                    NowAtOpen + kDay + 1, NowAtOpen + 7 * kDay,
                    NowAtOpen + 7 * kDay + 1},
      usageLimit : (0..MaxCount) \cup {-5, 50, 99, 100, 101, 200, 200000},
      requestApproval : {FALSE},
      isGroup : {TRUE} ]

SynthInit ==
    \E d \in SynthInputs :
        /\ Built(d)
        /\ expires = <<>>
        /\ usages = <<>>
        /\ expireButtons = <<>>
        /\ usageButtons = <<>>
        /\ event = "Built"

\* regenerate() as called at line 298.
RegenerateCall ==
    /\ event = "Built"
    /\ Regenerate(expireValue, usageValue)
    /\ event' = "Open"
    /\ UNCHANGED <<data, now, clock, expireValue, usageValue, requestApproval,
                   usagesShown, boxAlive, picker, pickerTime, inputText,
                   inputError, doneCount, doneArg>>

\* Time may pass before regenerate() runs: it is called again from the save
\* handlers of the pickers, with the `now` of line 91 still captured.
SynthNext ==
    \/ RegenerateCall
    \/ (event = "Built" /\ Tick)

SynthSpec == SynthInit /\ [][SynthNext]_vars

\* ------------------------------------------------------------------------
\* Properties.

\* regenerate() has just run on the values the state holds now.
Regenerated ==
    \/ event = "Open"
    \/ /\ event \in {"ExpirePickerSave", "UsagePickerSave"}
       /\ picker = "none"
       /\ boxAlive

\* How many entries of s are v.
Count(s, v) == Cardinality({ i \in 1..Len(s) : s[i] = v })

\* v and every entry of presets occur exactly once in ladder, which has
\* Len(presets) or Len(presets) + 1 entries.
Contains(ladder, presets, v) ==
    /\ Count(ladder, v) = 1
    /\ \A k \in 1..Len(presets) : Count(ladder, presets[k]) = 1
    /\ Len(ladder) \in {Len(presets), Len(presets) + 1}

\* C1: after regenerate() each synthesized sequence contains the current value
\* of its dimension exactly once and every preset exactly once, in 5 or 6
\* entries.
C1_Containment ==
    Regenerated =>
        /\ Contains(expires, ExpirePresets, expireValue)
        /\ Contains(usages, UsagePresets, usageValue)

\* C2: when the current value is one of the presets (the trigger 0 aside),
\* regenerate() synthesizes the preset sequence itself, nothing inserted.
C2_PresetUnchanged ==
    Regenerated =>
        /\ (expireValue \in {kMaxLimit, -kHour, -kDay, -kDay * 7}
                => expires = ExpirePresets)
        /\ (usageValue \in {kMaxLimit, 1, 10, 100}
                => usages = UsagePresets)

\* C3: with the current expiration -7200 (two hours, relative) the sequence is
\* UNLIMITED, -3600, -7200, -86400, -604800, 0.
C3_TwoHours ==
    (event = "Open" /\ expireValue = -2 * kHour) =>
        expires = <<kMaxLimit, -kHour, -2 * kHour, -kDay, -kDay * 7, 0>>

\* Where a custom count c belongs among UNLIMITED, 1, 10, 100, 0: before the
\* first of 1, 10, 100 that is greater, else before the trailing 0.
UsagePlace(c) == IF c < 1 THEN 2 ELSE IF c < 10 THEN 3 ELSE IF c < 100 THEN 4 ELSE 5

\* The entries of ladder between its first and its last ascend strictly.
Ascending(ladder) ==
    \A i, j \in 2..(Len(ladder) - 1) : i < j => ladder[i] < ladder[j]

\* C4: for a positive count c that is no preset, the usage sequence is the
\* presets with c inserted before the first positive preset greater than c,
\* or before the trailing 0 when c > 100; its counts ascend strictly.
C4_UsageOrdering ==
    (event = "Open" /\ usageValue > 0 /\ usageValue \notin Range(UsagePresets))
        => /\ usages = InsertAt(UsagePresets, UsagePlace(usageValue), usageValue)
           /\ Ascending(usages)

C4_Witness ==
    /\ event = "Open"
    /\ usageValue = 200
    /\ usages = <<kMaxLimit, 1, 10, 100, 200, 0>>

\* What the committed expireDate is for the selection v, now() returning t.
CommitExpire(v, t) == IF v = kMaxLimit THEN 0 ELSE IF v < 0 THEN t - v ELSE v

\* C5: a step that calls done() hands it expireDate 0 for UNLIMITED, the
\* clock of that very step minus v for a negative selection v, and v itself
\* for a non-negative one.
C5_CommitExpire ==
    [][doneCount' # doneCount =>
          /\ Len(doneArg') = 1
          /\ doneArg'[1].expireDate = CommitExpire(expireValue, clock)]_vars

C5_Witness ==
    /\ event = "Save"
    /\ expireValue = -kHour
    /\ clock = now + TickStep
    /\ Len(doneArg) = 1
    /\ doneArg[1].expireDate = now + TickStep + kHour

\* C6: the record handed to done() has usageLimit 0 for UNLIMITED and the
\* selection itself otherwise, also while approval is requested and the usage
\* section is hidden; requestApproval is passed as it is.
C6_CommitUsage ==
    doneArg # <<>> =>
        /\ doneArg[1].usageLimit
              = (IF usageValue = kMaxLimit THEN 0 ELSE usageValue)
        /\ doneArg[1].requestApproval = requestApproval

C6_Witness ==
    /\ event = "Save"
    /\ requestApproval
    /\ ~usagesShown
    /\ usageValue = 50
    /\ Len(doneArg) = 1
    /\ doneArg[1].usageLimit = 50
    /\ doneArg[1].requestApproval

C8_CancelNeverCommits ==
    [][/\ (event' = "Cancel" => (~boxAlive' /\ doneCount' = doneCount))
       /\ (~boxAlive => doneCount' = doneCount)]_vars

C8_Witness ==
    /\ event = "Cancel"
    /\ ~boxAlive
    /\ doneCount = 0
    /\ usageValue = 50
    /\ expireValue = NowAtOpen + 2 * kHour
    /\ requestApproval # data.requestApproval

\* C9: saving the number input on a text whose value is <= 0 keeps the
\* picker open, shows the error, and leaves usageValue, both groups and both
\* ladders as they are.
C9_UsageValidation ==
    [][\A text \in Texts :
          (picker = "usage" /\ toInt(text) <= 0 /\ UsageSave(text)
              /\ event' = "UsagePickerSave")
          => /\ picker' = "usage"
             /\ inputError'
             /\ UNCHANGED <<expireValue, usageValue, expireGroup, usageGroup,
                            expires, usages, expireButtons, usageButtons>>]_vars

\* The error is shown on an unparsable text while the shown usage ladder is
\* not the one regenerate() would build now.
C9_Witness ==
    /\ event = "UsagePickerSave"
    /\ picker = "usage"
    /\ inputError
    /\ inputText = <<"x">>
    /\ usageValue = 10
    /\ usages = <<kMaxLimit, 1, 5, 10, 100, 0>>

\* C10: selecting the trailing 0 entry of either list and cancelling the
\* picker each leave both stored selections, both group values and both
\* rendered lists as they were.
C10_CancelPreservesState ==
    [][event' \in {"CustomExpire", "CustomUsage",
                   "ExpirePickerCancel", "UsagePickerCancel"}
          => UNCHANGED <<expireValue, usageValue, expireGroup, usageGroup,
                         expireButtons, usageButtons>>]_vars

C10_Witness ==
    /\ event = "ExpirePickerCancel"
    /\ picker = "none"
    /\ boxAlive
    /\ expireValue = -kDay
    /\ expireGroup = -kDay
    /\ expireButtons = <<kMaxLimit, -kHour, NowAtOpen + 2 * kHour, -kDay,
                         -kDay * 7, 0>>


\* C11: the usage section is shown exactly when requestApproval is false, and
\* a step that toggles requestApproval leaves usageValue, the usage group and
\* the usage buttons as they are.
C11_ApprovalHidesUsage ==
    [][/\ usagesShown = ~requestApproval
       /\ usagesShown' = ~requestApproval'
       /\ (requestApproval' # requestApproval
              => UNCHANGED <<usageValue, usageGroup, usages, usageButtons>>)]_vars

\* Approval is off again, as it was when the box opened, and the custom count
\* chosen before is still the selection.
C11_Witness ==
    /\ event = "ToggleApproval"
    /\ ~data.requestApproval
    /\ ~requestApproval
    /\ usagesShown
    /\ usageValue = 50
    /\ usageGroup = 50
    /\ 50 \in Range(usageButtons)

\* No entry of s occurs twice.
NoDuplicates(s) == \A i, j \in 1..Len(s) : s[i] = s[j] => i = j

\* C12: in every state each dimension's ladder is duplicate-free and holds
\* that dimension's current selection.
C12_LadderInvariant ==
    /\ NoDuplicates(expires)
    /\ expireValue \in Range(expires)
    /\ NoDuplicates(usages)
    /\ usageValue \in Range(usages)

dialogState == <<expireValue, usageValue, expireGroup, usageGroup, expires,
                 usages, expireButtons, usageButtons>>

\* C14: a picker's save on a valid value closes the picker; with the dialog
\* destroyed it leaves the dialog's state and ladders as they are, with the
\* dialog alive it stores the value and regenerates.
C14_LivenessGuard ==
    [][/\ \A result \in DateResults \ {0} :
             (picker = "expire" /\ event' = "ExpirePickerSave"
                  /\ ExpireSave(result))
             => /\ picker' = "none"
                /\ IF boxAlive
                   THEN /\ expireValue' = result
                        /\ expireGroup' = result
                        /\ result \in Range(expires')
                   ELSE UNCHANGED dialogState
       /\ \A text \in Texts :
             (picker = "usage" /\ event' = "UsagePickerSave"
                  /\ toInt(text) > 0 /\ UsageSave(text))
             => /\ picker' = "none"
                /\ IF boxAlive
                   THEN /\ usageValue' = toInt(text)
                        /\ usageGroup' = toInt(text)
                        /\ toInt(text) \in Range(usages')
                   ELSE UNCHANGED dialogState]_vars

\* The date picker was saved and closed after the dialog was destroyed, and
\* the selection is still the one the dialog was opened with.
C14_Witness ==
    /\ event = "ExpirePickerSave"
    /\ ~boxAlive
    /\ picker = "none"
    /\ data.expireDate = 0
    /\ expireValue = kMaxLimit
    /\ expires = ExpirePresets

\* The time C15 says the date picker is seeded with, now() returning t.
ClaimedPickerTime(ev, t) ==
    IF ev = kMaxLimit THEN t + kDay ELSE IF ev >= 0 THEN ev ELSE t - ev

\* C15 as stated: the date picker opens on now + one day for UNLIMITED, on the
\* current value for every non-negative value, on now + |value| for a
\* negative one.
C15_SeedAsClaimed ==
    [][(picker = "none" /\ picker' = "expire")
          => pickerTime' = ClaimedPickerTime(expireValue, clock)]_vars

\* C15 amended: the date picker opens on the current value only when that is
\* later than now, and on now + one day for UNLIMITED and for a non-negative
\* value not later than now; on now + |value| for a negative one.
C15_PickerSeed ==
    [][(picker = "none" /\ picker' = "expire")
          => pickerTime' =
                (IF expireValue = kMaxLimit THEN clock + kDay
                 ELSE IF expireValue > clock THEN expireValue
                 ELSE IF expireValue >= 0 THEN clock + kDay
                 ELSE clock + (0 - expireValue))]_vars

\* The picker is open on now + one day for an absolute time already past.
C15_Witness ==
    /\ event = "CustomExpire"
    /\ picker = "expire"
    /\ expireValue = NowAtOpen - 100
    /\ pickerTime = clock + kDay

\* C16: the date picker's save on an unset result (0) leaves the picker open
\* and the dialog's state, ladders and shown lists as they are.
C16_NullDateResult ==
    [][(picker = "expire" /\ event' = "ExpirePickerSave" /\ ExpireSave(0))
          => /\ picker' = "expire"
             /\ pickerTime' = pickerTime
             /\ UNCHANGED dialogState]_vars

\* The save of an unset result has run, the picker is still open, and the
\* shown list is not the one regenerate() would build now.
C16_Witness ==
    /\ event = "ExpirePickerSave"
    /\ picker = "expire"
    /\ boxAlive
    /\ expireValue = -kHour
    /\ (NowAtOpen + 2 * kHour) \in Range(expireButtons)

\* C17: opened on a record with expireDate >= 0 and usageLimit >= 0, the
\* dialog never stores 0 as a selection; selecting the trailing 0 entry keeps
\* the stored value, puts the group back on it and opens the picker.
C17_TriggerNeverStored ==
    [][(data.expireDate >= 0 /\ data.usageLimit >= 0) =>
          /\ expireValue # 0 /\ usageValue # 0
          /\ expireValue' # 0 /\ usageValue' # 0
          /\ ((picker = "none" /\ event' = "CustomExpire")
                 => /\ expireValue' = expireValue
                    /\ expireGroup' = expireValue
                    /\ picker' = "expire")
          /\ ((picker = "none" /\ event' = "CustomUsage")
                 => /\ usageValue' = usageValue
                    /\ usageGroup' = usageValue
                    /\ picker' = "usage")]_vars

C17_Witness ==
    /\ event = "CustomUsage"
    /\ picker = "usage"
    /\ data.usageLimit = 5
    /\ usageValue = 5
    /\ usageGroup = 5


\* C18: each synthesized ladder begins with UNLIMITED, ends with the trailing
\* 0, and is the preset sequence, in its order, with at most one value
\* inserted after the first and before the last entry.
PresetsInOrder(ladder, presets) ==
    /\ ladder[1] = kMaxLimit
    /\ ladder[Len(ladder)] = 0
    /\ \/ ladder = presets
       \/ \E k \in 2..Len(presets) : ladder = InsertAt(presets, k, ladder[k])

C18_EndsAndOrder ==
    event = "Open" =>
        /\ PresetsInOrder(expires, ExpirePresets)
        /\ PresetsInOrder(usages, UsagePresets)

C18_Witness ==
    /\ event = "Open"
    /\ expires = <<kMaxLimit, -kHour, NowAtOpen + 2 * kHour, -kDay,
                   -kDay * 7, 0>>
    /\ usages = <<kMaxLimit, 1, 10, 100, 200, 0>>

\* C19: a step that calls done() with nothing but the opening (and the
\* passing of time) before it hands over the record the dialog was opened
\* with, provided 0 <= expireDate < kMaxLimit and 0 <= usageLimit < kMaxLimit.
C19_RoundTrip ==
    [][(/\ event = "Open"
        /\ doneCount' # doneCount
        /\ 0 <= data.expireDate /\ data.expireDate < kMaxLimit
        /\ 0 <= data.usageLimit /\ data.usageLimit < kMaxLimit)
          => doneArg' = <<data>>]_vars

\* The record handed over is the input, 0 for "never" included, after time
\* has passed.
C19_Witness ==
    /\ event = "Save"
    /\ doneCount = 1
    /\ doneArg = <<data>>
    /\ data.expireDate = 0
    /\ data.usageLimit = 5
    /\ data.requestApproval
    /\ clock = now + TickStep

\* The time at which entry v of the expiration ladder expires, relative
\* presets measured from the `now` captured when the dialog was opened.
Resolved(v) == IF v < 0 THEN now - v ELSE v

\* Where an absolute time T belongs among the expiration presets: before the
\* first relative preset that resolves to T or later, else before the
\* trailing 0.
ExpirePlace(T) ==
    IF \E k \in 2..4 : now - ExpirePresets[k] >= T
    THEN CHOOSE k \in 2..4 :
            /\ now - ExpirePresets[k] >= T
            /\ \A j \in 2..(k - 1) : now - ExpirePresets[j] < T
    ELSE 5

\* C20: for an absolute time T > 0 as the current value, the expiration ladder
\* is the presets with T inserted before the first relative preset p whose
\* time now0 - p is T or later (before the trailing 0 if there is none), now0
\* being the time captured at opening; the entries between UNLIMITED and the
\* trailing 0 are in non-decreasing order of the time they resolve to.
C20_AbsoluteOrdering ==
    (event = "Open" /\ expireValue > 0 /\ expireValue # kMaxLimit) =>
        /\ expires = InsertAt(ExpirePresets, ExpirePlace(expireValue),
                              expireValue)
        /\ \A i, j \in 2..(Len(expires) - 1) :
              i < j => Resolved(expires[i]) <= Resolved(expires[j])

\* regenerate() ran later than the opening, on a time between the one the
\* 1-hour preset resolves to from the opening and from the call.
C20_Witness ==
    /\ event = "Open"
    /\ clock = now + TickStep
    /\ expireValue = NowAtOpen + kHour + 1
    /\ expires = <<kMaxLimit, -kHour, NowAtOpen + kHour + 1, -kDay,
                   -kDay * 7, 0>>

====
